---- MODULE Spec2Model ----
(***************************************************************************)
(* File-system tools of agent_coding_template: the file editor, file copy, *)
(* file rename, file writer, directory creator, file reader, README reader *)
(* and directory mapper, modelled over a small file system.                *)
(*                                                                         *)
(* A path is a non-empty sequence of names relative to the working         *)
(* directory, a text is a sequence of one-character strings.  Every tool   *)
(* call is one atomic step: it reads the file system fs and leaves the new *)
(* fs, the returned string (or the escaped exception) in ret, the call in  *)
(* call and the file system it started from in pre.  SpecRace alone runs   *)
(* two calls at once, one system call at a time, and keeps them in thread. *)
(***************************************************************************)
EXTENDS Integers, Sequences, FiniteSets, TLC

VARIABLES fs, pre, call, ret, thread

vars == <<fs, pre, call, ret, thread>>

(***************************************************************************)
(* Bounds of the model.                                                    *)
(***************************************************************************)
\* longest file content of an initial file system of SpecEdit
MaxLen == 3
\* longest content argument of an editor call of SpecEdit
MaxArgLen == 2
\* largest line number argument
MaxLine == 4
\* most characters (or directories) a failing write (or makedirs) leaves behind
MaxPartial == 1
\* The levels of the trees of SpecTree, and the largest depth argument.
MaxDepth == 4
\* largest max_chars argument of SpecRead
MaxChars == 4

(***************************************************************************)
(* Texts.                                                                  *)
(***************************************************************************)
LF == "\n"
CR == "\r"
FF == "\f"

\* The texts over alphabet A of at most n characters.
Str(A, n) == UNION {[1..k -> A] : k \in 0..n}

\* s[from..] and s[1..to] as Python slices s[from-1:] and s[:to].
Drop(s, k) == SubSeq(s, k + 1, Len(s))
Take(s, k) == SubSeq(s, 1, IF k < Len(s) THEN k ELSE Len(s))

Range(s) == {s[i] : i \in DOMAIN s}

RECURSIVE Concat(_)
\* "".join(lines), what f.writelines(lines) writes.
Concat(lines) ==
    IF lines = <<>> THEN <<>> ELSE Head(lines) \o Concat(Tail(lines))

\* os.linesep on the POSIX platform the tools run on.
LineSep == <<LF>>

RECURSIVE EncodeNewlines(_)
\* Text-mode write (newline=None): every "\n" written becomes os.linesep.
EncodeNewlines(s) ==
    IF s = <<>> THEN <<>>
    ELSE (IF Head(s) = LF THEN LineSep ELSE <<Head(s)>>) \o EncodeNewlines(Tail(s))

RECURSIVE DecodeNewlines(_)
\* Text-mode read (newline=None, universal newlines): "\r\n" and "\r" are
\* read as "\n".
DecodeNewlines(s) ==
    IF s = <<>> THEN <<>>
    ELSE IF Head(s) = CR
         THEN IF Len(s) >= 2 /\ s[2] = LF
              THEN <<LF>> \o DecodeNewlines(Drop(s, 2))
              ELSE <<LF>> \o DecodeNewlines(Tail(s))
         ELSE <<Head(s)>> \o DecodeNewlines(Tail(s))

RECURSIVE FirstBreak(_, _, _)
\* The length of the first line of s, its terminator included, where
\* breaks are the one-character terminators and "\r\n" counts as one.
FirstBreak(s, breaks, i) ==
    IF i > Len(s) THEN Len(s)
    ELSE IF s[i] = CR /\ CR \in breaks /\ i < Len(s) /\ s[i + 1] = LF THEN i + 1
    ELSE IF s[i] \in breaks THEN i
    ELSE FirstBreak(s, breaks, i + 1)

RECURSIVE SplitKeep(_, _)
SplitKeep(s, breaks) ==
    IF s = <<>> THEN <<>>
    ELSE LET k == FirstBreak(s, breaks, 1)
         IN  <<Take(s, k)>> \o SplitKeep(Drop(s, k), breaks)

\* f.readlines() of a file opened in text mode: the decoded text cut after
\* every "\n".
readlines(content) == SplitKeep(DecodeNewlines(content), {LF})

\* The line boundaries of str.splitlines that the alphabets here can hold
\* (the full set also has \v, \x1c, \x1d, \x1e, \x85, U+2028 and U+2029).
StrLineBreaks == {LF, CR, FF}

\* content.splitlines(keepends=True)
splitlines_keepends(content) == SplitKeep(content, StrLineBreaks)

\* line.endswith("\n")
endswith_newline(line) == line # <<>> /\ line[Len(line)] = LF

(***************************************************************************)
(* Optional arguments.                                                     *)
(***************************************************************************)
NoneInt == [some |-> FALSE, val |-> 0]
NoneStr == [some |-> FALSE, val |-> <<>>]
SomeInt(n) == [some |-> TRUE, val |-> n]
SomeStr(s) == [some |-> TRUE, val |-> s]

(***************************************************************************)
(* The file system.                                                        *)
(***************************************************************************)
Absent == [kind |-> "none", content |-> <<>>]
Dir == [kind |-> "dir", content |-> <<>>]
File(c) == [kind |-> "file", content |-> c]

\* os.path.dirname: <<>> is the empty string (the working directory).
dirname(p) == SubSeq(p, 1, Len(p) - 1)
\* os.path.basename
basename(p) == p[Len(p)]
\* os.path.join(p, name)
join(p, name) == Append(p, name)

exists(f, p) == p \in DOMAIN f /\ f[p].kind # "none"
isfile(f, p) == p \in DOMAIN f /\ f[p].kind = "file"
\* The working directory always is a directory.
isdir(f, p) == p = <<>> \/ (p \in DOMAIN f /\ f[p].kind = "dir")

\* A file system is well formed when every entry lies in a directory.
WellFormed(f) == \A p \in DOMAIN f : exists(f, p) => isdir(f, dirname(p))

(***************************************************************************)
(* Faults: the system call of kind op raises err; a listing fault hits the *)
(* directory at only, and a failing write or makedirs has done n units of  *)
(* its work.                                                               *)
(***************************************************************************)
NoFault == [op |-> "none", err |-> "none", at |-> <<>>, n |-> 0]

Fails(fault, op) == fault.op = op

\* What a system call leaves: the file system and the exception raised.
Ok(f) == [fs |-> f, exc |-> "none"]
Raise(f, e) == [fs |-> f, exc |-> e]

RECURSIVE MissingDirs(_, _)
\* The prefixes of d that os.makedirs has to create, outermost first.
MissingDirs(f, d) ==
    IF d = <<>> \/ exists(f, d) THEN <<>>
    ELSE Append(MissingDirs(f, dirname(d)), d)

RECURSIVE MkDirs(_, _)
MkDirs(f, ds) ==
    IF ds = <<>> THEN f
    ELSE MkDirs([f EXCEPT ![Head(ds)] = Dir], Tail(ds))

\* os.makedirs(d) without exist_ok: an existing directory d is an error.
makedirs_NotExistOk(f, d, fault) ==
    LET missing == MissingDirs(f, d)
    IN  IF d = <<>> THEN Raise(f, "FileNotFoundError")
        ELSE IF missing = <<>> THEN Raise(f, "FileExistsError")
        ELSE IF ~isdir(f, dirname(Head(missing))) THEN Raise(f, "NotADirectoryError")
        ELSE IF Fails(fault, "makedirs") THEN Raise(f, fault.err)
        ELSE Ok(MkDirs(f, missing))

\* os.makedirs(d, exist_ok=True)
makedirs(f, d, fault) ==
    LET missing == MissingDirs(f, d)
        top == IF missing = <<>> THEN d ELSE dirname(Head(missing))
        done == IF fault.n < Len(missing) THEN fault.n
                ELSE IF missing = <<>> THEN 0 ELSE Len(missing) - 1
    IN  IF d = <<>> THEN Raise(f, "FileNotFoundError")
        ELSE IF ~isdir(f, top) THEN
             \* an existing file is in the way: mkdir fails and the path is
             \* no directory, so exist_ok does not swallow the error
             Raise(f, IF top = d THEN "FileExistsError" ELSE "NotADirectoryError")
        ELSE IF Fails(fault, "makedirs") THEN Raise(MkDirs(f, Take(missing, done)), fault.err)
        ELSE Ok(MkDirs(f, missing))

\* open without truncation: what the old content has beyond the written text
\* stays in the file.
open_write_NoTruncate(f, p, mode, text, fault) ==
    IF Fails(fault, "open") THEN Raise(f, fault.err)
    ELSE IF mode = "x" /\ exists(f, p) THEN Raise(f, "FileExistsError")
    ELSE IF isdir(f, p) THEN Raise(f, "IsADirectoryError")
    ELSE IF ~isdir(f, dirname(p)) THEN Raise(f, "FileNotFoundError")
    ELSE Ok([f EXCEPT ![p] = File(EncodeNewlines(text)
                                      \o Drop(f[p].content, Len(EncodeNewlines(text))))])

\* with open(p, mode, encoding="utf-8") as f: f.write(text), mode "w" or "x"
open_write(f, p, mode, text, fault) ==
    IF Fails(fault, "open") THEN Raise(f, fault.err)
    ELSE IF mode = "x" /\ exists(f, p) THEN Raise(f, "FileExistsError")
    ELSE IF isdir(f, p) THEN Raise(f, "IsADirectoryError")
    ELSE IF ~isdir(f, dirname(p)) THEN
         Raise(f, IF exists(f, dirname(p)) THEN "NotADirectoryError"
                  ELSE "FileNotFoundError")
    ELSE IF Fails(fault, "write")
    THEN Raise([f EXCEPT ![p] = File(Take(EncodeNewlines(text), fault.n))], fault.err)
    ELSE Ok([f EXCEPT ![p] = File(EncodeNewlines(text))])

\* os.remove(p)
remove(f, p, fault) ==
    IF Fails(fault, "remove") THEN Raise(f, fault.err)
    ELSE IF ~exists(f, p) THEN Raise(f, "FileNotFoundError")
    ELSE IF isdir(f, p) THEN Raise(f, "IsADirectoryError")
    ELSE Ok([f EXCEPT ![p] = Absent])

\* os.rename with the effect of a copy: the source stays.
rename_LeavesSource(f, src, dst, fault) ==
    IF Fails(fault, "rename") THEN Raise(f, fault.err)
    ELSE IF ~isfile(f, src) THEN Raise(f, "FileNotFoundError")
    ELSE IF isdir(f, dst) THEN Raise(f, "IsADirectoryError")
    ELSE IF ~isdir(f, dirname(dst)) THEN Raise(f, "FileNotFoundError")
    ELSE Ok([f EXCEPT ![dst] = f[src]])

\* os.rename(src, dst) of a regular file src (POSIX: an existing file dst is
\* replaced, renaming a file onto itself does nothing)
rename(f, src, dst, fault) ==
    IF Fails(fault, "rename") THEN Raise(f, fault.err)
    ELSE IF ~isfile(f, src) THEN Raise(f, "FileNotFoundError")
    ELSE IF isdir(f, dst) THEN Raise(f, "IsADirectoryError")
    ELSE IF ~isdir(f, dirname(dst)) THEN
         Raise(f, IF exists(f, dirname(dst)) THEN "NotADirectoryError"
                  ELSE "FileNotFoundError")
    ELSE IF src = dst THEN Ok(f)
    ELSE Ok([f EXCEPT ![dst] = f[src], ![src] = Absent])

\* Where shutil.copy2(src, dst) writes: into dst when dst is a directory.
CopyTarget(f, src, dst) == IF isdir(f, dst) THEN join(dst, basename(src)) ELSE dst

\* shutil.copy2(src, dst) of a regular file src: the bytes are copied as they are
copy2(f, src, dst, fault) ==
    LET target == CopyTarget(f, src, dst)
    IN  IF exists(f, target) /\ target = src THEN Raise(f, "SameFileError")
        ELSE IF Fails(fault, "read") \/ Fails(fault, "open") THEN Raise(f, fault.err)
        ELSE IF ~isfile(f, src) THEN Raise(f, "FileNotFoundError")
        ELSE IF isdir(f, target) THEN Raise(f, "IsADirectoryError")
        ELSE IF ~isdir(f, dirname(target)) THEN
             Raise(f, IF exists(f, dirname(target)) THEN "NotADirectoryError"
                      ELSE "FileNotFoundError")
        ELSE IF Fails(fault, "write")
        THEN Raise([f EXCEPT ![target] = File(Take(f[src].content, fault.n))], fault.err)
        ELSE Ok([f EXCEPT ![target] = File(f[src].content)])

\* with open(p, "r", encoding="utf-8") as f: the raw content, or the exception
open_read(f, p, fault) ==
    IF Fails(fault, "read") THEN Raise(f, fault.err)
    ELSE IF isdir(f, p) THEN Raise(f, "IsADirectoryError")
    ELSE IF ~isfile(f, p) THEN Raise(f, "FileNotFoundError")
    ELSE Ok(f)

(***************************************************************************)
(* What a tool call leaves: the file system and the string it returns, or  *)
(* the exception that escapes it.                                          *)
(***************************************************************************)
\* The tool returns the string msg; out holds the text a "{...}" of msg stands for.
Output(f, msg, out) ==
    [fs |-> f, ret |-> [status |-> "returned", msg |-> msg, exc |-> "none", out |-> out]]
Return(f, msg) == Output(f, msg, <<>>)
\* The tool returns a string built around str(e) of the exception it caught.
Caught(f, msg, e) ==
    [fs |-> f, ret |-> [status |-> "returned", msg |-> msg, exc |-> e, out |-> <<>>]]
\* The exception leaves the tool uncaught.
Escapes(f, e) ==
    [fs |-> f, ret |-> [status |-> "raised", msg |-> "", exc |-> e, out |-> <<>>]]

(***************************************************************************)
(* FileEditorTool                                                          *)
(***************************************************************************)
\* action == "new" without the check that the path is free.
EditorNew_Overwrites(f, file_path, content, fault) ==
    LET text == IF content.some THEN content.val ELSE <<>>
        written == open_write(f, file_path, "w", text, fault)
    IN  IF written.exc # "none"
        THEN Caught(written.fs, "Error editing file: {e}", written.exc)
        ELSE Return(written.fs, "Successfully created new file '{file_path}'.")

\* action == "new" without the creation of the parent directories.
EditorNew_NoParents(f, file_path, content, fault) ==
    LET text == IF content.some THEN content.val ELSE <<>>
        written == open_write(f, file_path, "w", text, fault)
    IN  IF exists(f, file_path) THEN Return(f, "Error: File '{file_path}' already exists.")
        ELSE IF written.exc # "none"
             THEN Caught(written.fs, "Error editing file: {e}", written.exc)
        ELSE Return(written.fs, "Successfully created new file '{file_path}'.")

\* action == "new"
EditorNew(f, file_path, content, fault) ==
    LET directory == dirname(file_path)
        made == IF directory # <<>> /\ ~exists(f, directory)
                THEN makedirs(f, directory, fault) ELSE Ok(f)
        text == IF content.some THEN content.val ELSE <<>>
        written == open_write(made.fs, file_path, "w", text, fault)
    IN  IF exists(f, file_path) THEN Return(f, "Error: File '{file_path}' already exists.")
        ELSE IF made.exc # "none" THEN Caught(made.fs, "Error editing file: {e}", made.exc)
        ELSE IF written.exc # "none"
             THEN Caught(written.fs, "Error editing file: {e}", written.exc)
        ELSE Return(written.fs, "Successfully created new file '{file_path}'.")

\* The position one line late: start_line taken as a 0-based index.
InsertIndex_OffByOne(lines, start_line) ==
    IF start_line.some
    THEN IF start_line.val > Len(lines) THEN Len(lines) ELSE start_line.val
    ELSE Len(lines)

\* The position an insert splices at: start_line - 1 clamped to the end.
InsertIndex(lines, start_line) ==
    IF start_line.some
    THEN IF start_line.val - 1 > Len(lines) THEN Len(lines) ELSE start_line.val - 1
    ELSE Len(lines)

\* Appending without the added line break.
InsertTerminated_Never(lines, start_line, new_lines) == lines

\* lines with a line break added to the last line when appending to a file
\* whose last line has none.
InsertTerminated(lines, start_line, new_lines) ==
    IF ~start_line.some /\ lines # <<>> /\ ~endswith_newline(lines[Len(lines)])
       /\ new_lines # <<>>
    THEN [lines EXCEPT ![Len(lines)] = lines[Len(lines)] \o <<LF>>]
    ELSE lines

\* lines[:index] + new_lines + lines[index:]
InsertLines(lines, index, new_lines) == Take(lines, index) \o new_lines \o Drop(lines, index)

\* action == "insert", the file read into lines
EditorInsert(f, file_path, lines, content, start_line, fault) ==
    LET index == InsertIndex(lines, start_line)
        new_lines == splitlines_keepends(content.val)
        updated_lines == InsertLines(InsertTerminated(lines, start_line, new_lines),
                                     index, new_lines)
        written == open_write(f, file_path, "w", Concat(updated_lines), fault)
    IN  IF start_line.some /\ start_line.val < 1
        THEN Return(f, "Error: start_line must be at least 1.")
        ELSE IF written.exc # "none"
             THEN Caught(written.fs, "Error editing file: {e}", written.exc)
        ELSE Return(written.fs,
                    "Successfully inserted content into file '{file_path}' at line {index+1}.")

\* The splice that keeps the last line of the range: lines[end_line - 1:].
UpdateLines_KeepsEndLine(lines, start_line, end_line, new_lines) ==
    Take(lines, start_line - 1) \o new_lines \o Drop(lines, end_line - 1)

\* lines[:start_line - 1] + new_lines + lines[end_line:]
UpdateLines(lines, start_line, end_line, new_lines) ==
    Take(lines, start_line - 1) \o new_lines \o Drop(lines, end_line)

\* end_line > len(lines) with the comparison off by one.
EndLineExceeds_OffByOne(lines, end_line) == end_line > Len(lines) + 1

\* end_line > len(lines)
EndLineExceeds(lines, end_line) == end_line > Len(lines)

\* action == "update", the file read into lines
EditorUpdate(f, file_path, lines, content, start_line, end_line, fault) ==
    LET new_lines == splitlines_keepends(content.val)
        updated_lines == UpdateLines(lines, start_line.val, end_line.val, new_lines)
        written == open_write(f, file_path, "w", Concat(updated_lines), fault)
    IN  IF ~start_line.some \/ ~end_line.some
        THEN Return(f, "Error: start_line and end_line are required for update action.")
        ELSE IF start_line.val < 1 \/ end_line.val < start_line.val
        THEN Return(f, "Error: Invalid start_line or end_line values.")
        ELSE IF EndLineExceeds(lines, end_line.val)
        THEN Return(f, "Error: end_line {end_line} exceeds total number of lines in file (file has {len(lines)} lines).")
        ELSE IF written.exc # "none"
             THEN Caught(written.fs, "Error editing file: {e}", written.exc)
        ELSE Return(written.fs,
                    "Successfully updated lines {start_line} to {end_line} in file '{file_path}'.")

\* FileEditorTool._run
FileEditorTool_run(f, file_path, action, content, start_line, end_line, fault) ==
    IF action \notin {"new", "insert", "update"}
    THEN Return(f, "Error: Invalid action specified. Must be 'new', 'insert', or 'update'.")
    ELSE IF action = "new" THEN EditorNew(f, file_path, content, fault)
    ELSE IF ~isfile(f, file_path)
    THEN Return(f, "Error: File '{file_path}' does not exist.")
    ELSE IF ~content.some
    THEN Return(f, "Error: content is required for insert and update actions.")
    ELSE LET opened == open_read(f, file_path, fault)
             lines == readlines(f[file_path].content)
         IN  IF opened.exc # "none"
             THEN Caught(f, "Error editing file: {e}", opened.exc)
             ELSE IF action = "insert"
                  THEN EditorInsert(f, file_path, lines, content, start_line, fault)
                  ELSE EditorUpdate(f, file_path, lines, content, start_line, end_line, fault)

(***************************************************************************)
(* FileCopyTool                                                            *)
(***************************************************************************)
\* The overwrite flag read the wrong way round.
CopyRefused_Inverted(f, destination_path, overwrite) ==
    exists(f, destination_path) /\ overwrite

\* os.path.exists(destination_path) and not overwrite
CopyRefused(f, destination_path, overwrite) == exists(f, destination_path) /\ ~overwrite

\* FileCopyTool._run
FileCopyTool_run(f, source_path, destination_path, overwrite, fault) ==
    LET dest_dir == dirname(destination_path)
        made == IF dest_dir # <<>> /\ ~exists(f, dest_dir)
                THEN makedirs(f, dest_dir, fault) ELSE Ok(f)
        copied == copy2(made.fs, source_path, destination_path, fault)
    IN  IF ~isfile(f, source_path)
        THEN Return(f, "Error: Source file '{source_path}' does not exist.")
        ELSE IF CopyRefused(f, destination_path, overwrite)
        THEN Return(f, "Error: Destination file '{destination_path}' already exists and overwrite is disabled.")
        ELSE IF made.exc # "none"
        THEN Caught(made.fs, "Error creating destination directory: {e}", made.exc)
        ELSE IF copied.exc # "none"
        THEN Caught(copied.fs, "Error copying file: {e}", copied.exc)
        ELSE Return(copied.fs,
                    "Successfully copied file from '{source_path}' to '{destination_path}'.")

(***************************************************************************)
(* FileRenameTool                                                          *)
(***************************************************************************)
\* The overwrite flag ignored: an existing destination is always replaced.
RenameRefused_Never(f, destination_path, overwrite) == FALSE

\* os.path.exists(destination_path) with overwrite false
RenameRefused(f, destination_path, overwrite) == exists(f, destination_path) /\ ~overwrite

\* FileRenameTool._run
FileRenameTool_run(f, source_path, destination_path, overwrite, fault) ==
    LET removed == IF exists(f, destination_path)
                   THEN remove(f, destination_path, fault) ELSE Ok(f)
        dest_dir == dirname(destination_path)
        made == IF dest_dir # <<>> /\ ~exists(removed.fs, dest_dir)
                THEN makedirs(removed.fs, dest_dir, fault) ELSE Ok(removed.fs)
        renamed == rename(made.fs, source_path, destination_path, fault)
    IN  IF ~isfile(f, source_path)
        THEN Return(f, "Error: Source file '{source_path}' does not exist.")
        ELSE IF RenameRefused(f, destination_path, overwrite)
        THEN Return(f, "Error: Destination file '{destination_path}' already exists and overwrite is disabled.")
        ELSE IF removed.exc # "none"
        THEN Caught(removed.fs, "Error removing existing destination file: {e}", removed.exc)
        ELSE IF made.exc # "none"
        THEN Caught(made.fs, "Error creating destination directory: {e}", made.exc)
        ELSE IF renamed.exc # "none"
        THEN Caught(renamed.fs, "Error renaming file: {e}", renamed.exc)
        ELSE Return(renamed.fs,
                    "Successfully renamed file from '{source_path}' to '{destination_path}'.")

(***************************************************************************)
(* WriteFileTool                                                           *)
(***************************************************************************)
\* The overwrite flag ignored by the test before the write.
WriteRefused_Never(f, file_path, overwrite) == FALSE

\* os.path.exists(file_path) and not overwrite
WriteRefused(f, file_path, overwrite) == exists(f, file_path) /\ ~overwrite

\* The mode that never creates exclusively.
WriteMode_AlwaysW(overwrite) == "w"

\* mode = "w" if overwrite else "x"
WriteMode(overwrite) == IF overwrite THEN "w" ELSE "x"

\* WriteFileTool._run
WriteFileTool_run(f, file_path, content, overwrite, fault) ==
    LET directory == dirname(file_path)
        made == IF directory # <<>> /\ ~exists(f, directory)
                THEN makedirs(f, directory, fault) ELSE Ok(f)
        mode == WriteMode(overwrite)
        written == open_write(made.fs, file_path, mode, content, fault)
    IN  IF WriteRefused(f, file_path, overwrite)
        THEN Return(f, "Error: File '{file_path}' already exists and overwrite is disabled.")
        ELSE IF made.exc # "none"
        THEN Caught(made.fs, "Error creating directories for file: {e}", made.exc)
        ELSE IF written.exc # "none"
        THEN Caught(written.fs, "Error writing file: {e}", written.exc)
        ELSE Return(written.fs, "Successfully wrote to file '{file_path}'.")

(***************************************************************************)
(* CreateDirectoryTool                                                     *)
(***************************************************************************)
\* CreateDirectoryTool._run
CreateDirectoryTool_run(f, directory, fault) ==
    LET made == makedirs(f, directory, fault)
    IN  IF made.exc # "none"
        THEN Caught(made.fs, "Error creating directory: {e}", made.exc)
        ELSE Return(made.fs, "Successfully created directory '{directory}'.")

(***************************************************************************)
(* FileReaderTool and ReadmeReaderTool                                     *)
(***************************************************************************)
\* content[:max_chars]: a negative max_chars counts from the end.
SliceTo(content, max_chars) ==
    IF max_chars >= 0 THEN Take(content, max_chars)
    ELSE Take(content, IF Len(content) + max_chars > 0 THEN Len(content) + max_chars ELSE 0)

\* A line of splitlines_keepends without its line boundary.
StripBreak(line) ==
    IF Len(line) >= 2 /\ line[Len(line) - 1] = CR /\ line[Len(line)] = LF
    THEN Take(line, Len(line) - 2)
    ELSE IF line # <<>> /\ line[Len(line)] \in StrLineBreaks
    THEN Take(line, Len(line) - 1)
    ELSE line

\* content.splitlines()
splitlines(content) ==
    LET kept == splitlines_keepends(content)
    IN  [i \in 1..Len(kept) |-> StripBreak(kept[i])]

DigitChars == <<"0", "1", "2", "3", "4", "5", "6", "7", "8", "9">>

RECURSIVE Decimal(_)
\* str(n) of a natural number n
Decimal(n) ==
    IF n < 10 THEN <<DigitChars[n + 1]>>
    ELSE Decimal(n \div 10) \o <<DigitChars[(n % 10) + 1]>>

RECURSIVE JoinNumbered(_, _)
\* "\n".join(f"{i+1}: {line}" for i, line in enumerate(lines)), from line i on
JoinNumbered(lines, i) ==
    IF i > Len(lines) THEN <<>>
    ELSE Decimal(i) \o <<":", " ">> \o lines[i]
         \o (IF i < Len(lines) THEN <<LF>> ELSE <<>>) \o JoinNumbered(lines, i + 1)

\* The reader numbering the lines of the whole content and cutting after.
FileReaderTool_run_NumbersFirst(f, file_path, max_chars, inject_line_numbers, fault) ==
    LET opened == open_read(f, file_path, fault)
        content == DecodeNewlines(f[file_path].content)
        numbered == IF inject_line_numbers THEN JoinNumbered(splitlines(content), 1)
                    ELSE content
    IN  IF ~isfile(f, file_path)
        THEN Return(f, "Error: The provided path '{file_path}' is not a valid file.")
        ELSE IF opened.exc # "none"
        THEN Caught(f, "Error reading file: {e}", opened.exc)
        ELSE Output(f, "{content}",
                    IF max_chars.some THEN SliceTo(numbered, max_chars.val) ELSE numbered)

\* FileReaderTool._run
FileReaderTool_run(f, file_path, max_chars, inject_line_numbers, fault) ==
    LET opened == open_read(f, file_path, fault)
        content == DecodeNewlines(f[file_path].content)
        cut == IF max_chars.some THEN SliceTo(content, max_chars.val) ELSE content
    IN  IF ~isfile(f, file_path)
        THEN Return(f, "Error: The provided path '{file_path}' is not a valid file.")
        ELSE IF opened.exc # "none"
        THEN Caught(f, "Error reading file: {e}", opened.exc)
        ELSE IF inject_line_numbers
        THEN Output(f, "{content}", JoinNumbered(splitlines(cut), 1))
        ELSE Output(f, "{content}", cut)

\* ReadmeReaderTool._run
ReadmeReaderTool_run(f, directory, max_chars, fault) ==
    LET readme_path == join(directory, "README.md")
        opened == open_read(f, readme_path, fault)
        content == DecodeNewlines(f[readme_path].content)
    IN  IF ~isdir(f, directory)
        THEN Return(f, "Error: The provided path '{directory}' is not a valid directory.")
        ELSE IF ~isfile(f, readme_path)
        THEN Return(f, "Error: README.md not found in directory '{directory}'.")
        ELSE IF opened.exc # "none"
        THEN Caught(f, "Error reading README.md: {e}", opened.exc)
        ELSE Output(f, "{content}",
                    IF max_chars.some THEN SliceTo(content, max_chars.val) ELSE content)

(***************************************************************************)
(* DirectoryMapperTool                                                     *)
(***************************************************************************)
\* Every name of the model in ascending codepoint order, the order sorted()
\* puts strings in ('.' < 'R' < 'a' < 'd').
NamesInOrder == <<".h", "README.md", "a", "d">>

\* No name taken for hidden.
startswith_dot_Never(entry) == FALSE

\* entry.startswith(".")
startswith_dot(entry) == entry \in {".h"}

\* os.listdir(path): the names, or the exception of a listing fault at path
listdir(f, path, fault) ==
    IF Fails(fault, "listdir") /\ fault.at = path
    THEN [names |-> {}, exc |-> fault.err]
    ELSE [names |-> {n \in Range(NamesInOrder) : exists(f, join(path, n))},
          exc |-> "none"]

\* The entries sorted without regard to case: "README.md" after "a" and "d".
SortedEntries_CaseInsensitive(names, show_hidden) ==
    LET Shown(n) == n \in names /\ (show_hidden \/ ~startswith_dot(n))
    IN  SelectSeq(<<".h", "a", "d", "README.md">>, Shown)

\* sorted([entry for entry in names if show_hidden or not entry.startswith(".")])
SortedEntries(names, show_hidden) ==
    LET Shown(n) == n \in names /\ (show_hidden \/ ~startswith_dot(n))
    IN  SelectSeq(NamesInOrder, Shown)

\* The connectors and indentation of the ascii tree, in ASCII here: the
\* source draws them with the box characters U+251C, U+2514, U+2500, U+2502.
ConnectorMid == "|-- "
ConnectorLast == "+-- "
PrefixMid == "|   "
PrefixLast == "    "

\* The depth test passing one level too late.
DepthReached_OffByOne(depth, level) == depth.some /\ level > depth.val

\* depth is not None and level >= depth
DepthReached(depth, level) == depth.some /\ level >= depth.val

\* No handler for the permission error of a listing.
Denied_Never(listed) == FALSE

\* except PermissionError around os.listdir
Denied(listed) == listed.exc = "PermissionError"

RECURSIVE build_ascii_tree(_, _, _, _, _, _, _)
RECURSIVE AsciiEntries(_, _, _, _, _, _, _, _, _)

\* The loop of _build_ascii_tree over entries, from position idx on, lines
\* being the lines so far.
AsciiEntries(f, path, prefix, entries, idx, lines, show_hidden, depth_level, fault) ==
    IF idx > Len(entries) THEN [lines |-> lines, exc |-> "none"]
    ELSE LET entry == entries[idx]
             full_path == join(path, entry)
             last == idx = Len(entries)
             connector == IF last THEN ConnectorLast ELSE ConnectorMid
             new_prefix == Append(prefix, IF last THEN PrefixLast ELSE PrefixMid)
             sub == build_ascii_tree(f, full_path, new_prefix, show_hidden,
                                     depth_level[1], depth_level[2] + 1, fault)
         IN  IF isdir(f, full_path)
             THEN IF sub.exc # "none" THEN sub
                  ELSE AsciiEntries(f, path, prefix, entries, idx + 1,
                           Append(lines, prefix \o <<connector, entry, "/">>) \o Tail(sub.lines),
                           show_hidden, depth_level, fault)
             ELSE AsciiEntries(f, path, prefix, entries, idx + 1,
                      Append(lines, prefix \o <<connector, entry>>),
                      show_hidden, depth_level, fault)

\* DirectoryMapperTool._build_ascii_tree: the lines, or the exception that
\* escapes the listing
build_ascii_tree(f, path, prefix, show_hidden, depth, level, fault) ==
    LET line == prefix \o <<basename(path)>> \o (IF isdir(f, path) THEN <<"/">> ELSE <<>>)
        listed == listdir(f, path, fault)
    IN  IF ~isdir(f, path) THEN [lines |-> <<line>>, exc |-> "none"]
        ELSE IF DepthReached(depth, level) THEN [lines |-> <<line>>, exc |-> "none"]
        ELSE IF Denied(listed)
        THEN [lines |-> <<line, Append(prefix, "    [Permission Denied]")>>, exc |-> "none"]
        ELSE IF listed.exc # "none" THEN [lines |-> <<>>, exc |-> listed.exc]
        ELSE AsciiEntries(f, path, prefix, SortedEntries(listed.names, show_hidden), 1,
                          <<line>>, show_hidden, <<depth, level>>, fault)

RECURSIVE build_json_tree(_, _, _, _, _, _)
RECURSIVE JsonChildren(_, _, _, _, _, _, _, _)

\* The list comprehension with show_hidden left at its default in the
\* recursive call.
JsonChildren_HiddenNotPassed(f, path, entries, idx, children, show_hidden, depth_level, fault) ==
    IF idx > Len(entries) THEN [children |-> children, exc |-> "none"]
    ELSE LET sub == build_json_tree(f, join(path, entries[idx]), FALSE,
                                    depth_level[1], depth_level[2] + 1, fault)
         IN  IF sub.exc # "none" THEN [children |-> <<>>, exc |-> sub.exc]
             ELSE JsonChildren(f, path, entries, idx + 1, Append(children, sub.tree),
                               show_hidden, depth_level, fault)

\* The list comprehension of _build_json_tree over entries, from idx on.
JsonChildren(f, path, entries, idx, children, show_hidden, depth_level, fault) ==
    IF idx > Len(entries) THEN [children |-> children, exc |-> "none"]
    ELSE LET sub == build_json_tree(f, join(path, entries[idx]), show_hidden,
                                    depth_level[1], depth_level[2] + 1, fault)
         IN  IF sub.exc # "none" THEN [children |-> <<>>, exc |-> sub.exc]
             ELSE JsonChildren(f, path, entries, idx + 1, Append(children, sub.tree),
                               show_hidden, depth_level, fault)

\* DirectoryMapperTool._build_json_tree: the node, or the exception that
\* escapes the listing
build_json_tree(f, path, show_hidden, depth, level, fault) ==
    LET listed == listdir(f, path, fault)
        kids == JsonChildren(f, path, SortedEntries(listed.names, show_hidden), 1, <<>>,
                             show_hidden, <<depth, level>>, fault)
    IN  IF ~isdir(f, path)
        THEN [tree |-> [name |-> basename(path), type |-> "file"], exc |-> "none"]
        ELSE IF DepthReached(depth, level)
        THEN [tree |-> [name |-> basename(path), type |-> "directory", children |-> <<>>],
              exc |-> "none"]
        ELSE IF Denied(listed)
        THEN [tree |-> [name |-> basename(path), type |-> "directory",
                        error |-> "Permission Denied"],
              exc |-> "none"]
        ELSE IF listed.exc # "none" THEN [tree |-> <<>>, exc |-> listed.exc]
        ELSE IF kids.exc # "none" THEN [tree |-> <<>>, exc |-> kids.exc]
        ELSE [tree |-> [name |-> basename(path), type |-> "directory",
                        children |-> kids.children],
              exc |-> "none"]

RECURSIVE JoinLines(_)
\* "\n".join(lines)
JoinLines(lines) ==
    IF lines = <<>> THEN <<>>
    ELSE IF Len(lines) = 1 THEN Head(lines)
    ELSE Head(lines) \o <<LF>> \o JoinLines(Tail(lines))

\* output_format.lower() over the format names of the model
lower(output_format) ==
    IF output_format = "JSON" THEN "json"
    ELSE IF output_format = "ASCII" THEN "ascii" ELSE output_format

\* DirectoryMapperTool._run; the json document is left as the tree that
\* json.dumps serialises
DirectoryMapperTool_run(f, directory, output_format, show_hidden, depth, fault) ==
    LET tree == build_json_tree(f, directory, show_hidden, depth, 1, fault)
        ascii == build_ascii_tree(f, directory, <<>>, show_hidden, depth, 1, fault)
    IN  IF ~isdir(f, directory)
        THEN Return(f, "Error: The provided path '{directory}' is not a valid directory.")
        ELSE IF ~output_format.some THEN Escapes(f, "AttributeError")
        ELSE IF lower(output_format.val) = "json"
        THEN IF tree.exc # "none" THEN Escapes(f, tree.exc)
             ELSE Output(f, "{json}", tree.tree)
        ELSE IF ascii.exc # "none" THEN Escapes(f, ascii.exc)
             ELSE Output(f, "{tree}", JoinLines(ascii.lines))

(***************************************************************************)
(* The asynchronous entry points.  Each _arun calls self._run; Python      *)
(* binds the arguments to the parameters _run declares and raises          *)
(* TypeError for a keyword that _run does not have.                        *)
(***************************************************************************)
\* The parameters each _run declares.
RunParameters(tool) ==
    CASE tool = "DirectoryMapperTool" ->
             {"directory", "output_format", "show_hidden", "depth", "run_manager"}
      [] tool = "ReadmeReaderTool" -> {"directory", "max_chars", "run_manager"}
      [] tool = "FileReaderTool" ->
             {"file_path", "max_chars", "inject_line_numbers", "run_manager"}
      [] tool = "FileEditorTool" ->
             {"file_path", "action", "content", "start_line", "end_line", "run_manager"}
      [] tool = "FileCopyTool" ->
             {"source_path", "destination_path", "overwrite", "run_manager"}
      [] tool = "FileRenameTool" ->
             {"source_path", "destination_path", "overwrite", "run_manager"}
      [] tool = "WriteFileTool" -> {"file_path", "content", "overwrite", "run_manager"}
      [] tool = "CreateDirectoryTool" -> {"directory", "run_manager"}

\* The parameters each _arun gives a value in its call of self._run.
ArunPasses(tool) ==
    CASE tool = "DirectoryMapperTool" ->
             {"directory", "output_format", "show_hidden", "depth", "run_manager"}
      [] tool = "ReadmeReaderTool" -> {"directory", "max_chars", "run_manager"}
      [] tool = "FileReaderTool" ->
             {"file_path", "max_chars", "inject_line_numbers", "run_manager"}
      [] tool = "FileEditorTool" ->
             {"file_path", "action", "content", "start_line", "end_line", "run_manager"}
      [] tool = "FileCopyTool" ->
             {"source_path", "destination_path", "overwrite", "run_manager"}
      [] tool = "FileRenameTool" ->
             {"source_path", "destination_path", "overwrite", "run_manager"}
      [] tool = "WriteFileTool" -> {"file_path", "content", "overwrite", "run_manager"}
      [] tool = "CreateDirectoryTool" -> {"directory", "exist_ok", "run_manager"}

\* return self._run(...) in _arun, run being what _run does once called
arun(tool, f, run) ==
    IF ArunPasses(tool) \subseteq RunParameters(tool) THEN run ELSE Escapes(f, "TypeError")

\* The entry point entry of tool: _run, or _arun around it.
Enter(entry, tool, f, run) == IF entry = "_arun" THEN arun(tool, f, run) ELSE run

(***************************************************************************)
(* The state machine: one step is one tool call.                           *)
(***************************************************************************)
NoCall == [tool |-> "none"]
NoRet == [status |-> "none", msg |-> "", exc |-> "none", out |-> <<>>]

\* tool._run(**args) for the tool and the arguments of call c, on file system f
RunOfCall(f, c) ==
    CASE c.tool = "DirectoryMapperTool" ->
             DirectoryMapperTool_run(f, c.directory, c.output_format, c.show_hidden,
                                     c.depth, c.fault)
      [] c.tool = "ReadmeReaderTool" ->
             ReadmeReaderTool_run(f, c.directory, c.max_chars, c.fault)
      [] c.tool = "FileReaderTool" ->
             FileReaderTool_run(f, c.file_path, c.max_chars, c.inject_line_numbers, c.fault)
      [] c.tool = "FileEditorTool" ->
             FileEditorTool_run(f, c.file_path, c.action, c.content, c.start_line,
                                c.end_line, c.fault)
      [] c.tool = "FileCopyTool" ->
             FileCopyTool_run(f, c.source_path, c.destination_path, c.overwrite, c.fault)
      [] c.tool = "FileRenameTool" ->
             FileRenameTool_run(f, c.source_path, c.destination_path, c.overwrite, c.fault)
      [] c.tool = "WriteFileTool" ->
             WriteFileTool_run(f, c.file_path, c.content, c.overwrite, c.fault)
      [] c.tool = "CreateDirectoryTool" -> CreateDirectoryTool_run(f, c.directory, c.fault)

\* The entry point of call c run on file system f: _run, or _arun around it.
Invoke(f, c) == Enter(c.entry, c.tool, f, RunOfCall(f, c))

\* The step of call c.  The fault of c is kept in call when it made a
\* difference to the call, and is NoFault when the failing system call was
\* never reached.
Step(c) ==
    LET r == Invoke(fs, c)
        unhurt == [c EXCEPT !.fault = NoFault]
    IN  /\ fs' = r.fs
        /\ pre' = fs
        /\ call' = IF r = Invoke(fs, unhurt) THEN unhurt ELSE c
        /\ ret' = r.ret
        /\ UNCHANGED thread

DirectoryMapper(entry, directory, output_format, show_hidden, depth, fault) ==
    Step([tool |-> "DirectoryMapperTool", entry |-> entry, directory |-> directory,
          output_format |-> output_format, show_hidden |-> show_hidden, depth |-> depth,
          fault |-> fault])

ReadmeReader(entry, directory, max_chars, fault) ==
    Step([tool |-> "ReadmeReaderTool", entry |-> entry, directory |-> directory,
          max_chars |-> max_chars, fault |-> fault])

FileReader(entry, file_path, max_chars, inject_line_numbers, fault) ==
    Step([tool |-> "FileReaderTool", entry |-> entry, file_path |-> file_path,
          max_chars |-> max_chars, inject_line_numbers |-> inject_line_numbers,
          fault |-> fault])

FileEditor(entry, file_path, action, content, start_line, end_line, fault) ==
    Step([tool |-> "FileEditorTool", entry |-> entry, file_path |-> file_path,
          action |-> action, content |-> content, start_line |-> start_line,
          end_line |-> end_line, fault |-> fault])

FileCopy(entry, source_path, destination_path, overwrite, fault) ==
    \* the model holds no path below its deepest directories
    /\ CopyTarget(fs, source_path, destination_path) \in DOMAIN fs
    /\ Step([tool |-> "FileCopyTool", entry |-> entry, source_path |-> source_path,
             destination_path |-> destination_path, overwrite |-> overwrite,
             fault |-> fault])

FileRename(entry, source_path, destination_path, overwrite, fault) ==
    Step([tool |-> "FileRenameTool", entry |-> entry, source_path |-> source_path,
          destination_path |-> destination_path, overwrite |-> overwrite, fault |-> fault])

WriteFile(entry, file_path, content, overwrite, fault) ==
    Step([tool |-> "WriteFileTool", entry |-> entry, file_path |-> file_path,
          content |-> content, overwrite |-> overwrite, fault |-> fault])

CreateDirectory(entry, directory, fault) ==
    Step([tool |-> "CreateDirectoryTool", entry |-> entry, directory |-> directory,
          fault |-> fault])

(***************************************************************************)
(* The inputs.                                                             *)
(***************************************************************************)
Entries == {"_run", "_arun"}

\* The paths of the file systems of Spec.
Paths == {<<"README.md">>, <<"d">>, <<"d", "README.md">>}
\* The file contents of the initial file systems of Spec.
Texts == Str({"x", LF}, 1)

Nodes(texts) == {Absent, Dir} \cup {File(c) : c \in texts}

Fault(op, err, at, n) == [op |-> op, err |-> err, at |-> at, n |-> n]
\* A system call of kind op fails with an OSError.
OSFaults(ops) == {Fault(op, "OSError", <<>>, 0) : op \in ops}
\* A write or makedirs fails part of the way.
PartialFaults(ops) == {Fault(op, "OSError", <<>>, n) : op \in ops, n \in 0..MaxPartial}
\* Listing a directory fails: permission denied, or another I/O error.
ListFaults(paths) ==
    {Fault("listdir", err, at, 0) : err \in {"PermissionError", "OSError"}, at \in paths}

OptInts(S) == {NoneInt} \cup {SomeInt(i) : i \in S}
OptStrs(S) == {NoneStr} \cup {SomeStr(c) : c \in S}

\* Before the first call: any well-formed file system of the given paths.
InitOver(paths, texts) ==
    /\ fs \in [paths -> Nodes(texts)]
    /\ WellFormed(fs)
    /\ pre = fs
    /\ call = NoCall
    /\ ret = NoRet
    /\ thread = <<>>

Init == InitOver(Paths, Texts)

\* No call has been made yet.  The tools keep nothing between calls, so a
\* behaviour is one call of any tool, on any file system.
Idle == call = NoCall

Next ==
    \/ /\ Idle
       /\ \E entry \in Entries, directory \in DOMAIN fs,
             output_format \in OptStrs({"ascii", "JSON", "xml"}), show_hidden \in BOOLEAN,
             depth \in OptInts({1, 2}), fault \in {NoFault} \cup ListFaults(DOMAIN fs) :
             DirectoryMapper(entry, directory, output_format, show_hidden, depth, fault)
    \/ /\ Idle
       /\ \E entry \in Entries, directory \in DOMAIN fs, max_chars \in OptInts({1}),
             fault \in {NoFault} \cup OSFaults({"read"}) :
             ReadmeReader(entry, directory, max_chars, fault)
    \/ /\ Idle
       /\ \E entry \in Entries, file_path \in DOMAIN fs, max_chars \in OptInts({1}),
             inject_line_numbers \in BOOLEAN, fault \in {NoFault} \cup OSFaults({"read"}) :
             FileReader(entry, file_path, max_chars, inject_line_numbers, fault)
    \/ /\ Idle
       /\ \E entry \in Entries, file_path \in DOMAIN fs,
             action \in {"new", "insert", "update", "delete"},
             content \in OptStrs({<<"x">>, <<CR, LF>>}),
             start_line \in OptInts({1}), end_line \in OptInts({1}),
             fault \in {NoFault} \cup OSFaults({"read", "open"})
                          \cup PartialFaults({"write", "makedirs"}) :
             FileEditor(entry, file_path, action, content, start_line, end_line, fault)
    \/ /\ Idle
       /\ \E entry \in Entries, source_path \in DOMAIN fs, destination_path \in DOMAIN fs,
             overwrite \in BOOLEAN,
             fault \in {NoFault} \cup OSFaults({"read", "open"})
                          \cup PartialFaults({"write", "makedirs"}) :
             FileCopy(entry, source_path, destination_path, overwrite, fault)
    \/ /\ Idle
       /\ \E entry \in Entries, source_path \in DOMAIN fs, destination_path \in DOMAIN fs,
             overwrite \in BOOLEAN,
             fault \in {NoFault} \cup OSFaults({"remove", "rename"})
                          \cup PartialFaults({"makedirs"}) :
             FileRename(entry, source_path, destination_path, overwrite, fault)
    \/ /\ Idle
       /\ \E entry \in Entries, file_path \in DOMAIN fs, content \in Str({"x"}, 1),
             overwrite \in BOOLEAN,
             fault \in {NoFault} \cup OSFaults({"open"})
                          \cup PartialFaults({"write", "makedirs"}) :
             WriteFile(entry, file_path, content, overwrite, fault)
    \/ /\ Idle
       /\ \E entry \in Entries, directory \in DOMAIN fs,
             fault \in {NoFault} \cup PartialFaults({"makedirs"}) :
             CreateDirectory(entry, directory, fault)

Spec == Init /\ [][Next]_vars

(***************************************************************************)
(* SpecEdit: the file editor alone on one file of up to MaxLen characters, *)
(* with every line-number argument up to MaxLine.                          *)
(***************************************************************************)
EditPaths == {<<"a">>}
EditAlphabet == {"x", LF, CR}
EditTexts == Str(EditAlphabet, MaxLen)

InitEdit ==
    /\ InitOver(EditPaths, EditTexts)
    /\ \A p \in EditPaths : isfile(fs, p)

NextEdit ==
    /\ Idle
    /\ \E file_path \in DOMAIN fs, action \in {"insert", "update"},
          content \in OptStrs(Str(EditAlphabet, MaxArgLen)),
          start_line \in OptInts(0..MaxLine), end_line \in OptInts(0..MaxLine) :
          FileEditor("_run", file_path, action, content, start_line, end_line, NoFault)

SpecEdit == InitEdit /\ [][NextEdit]_vars

(***************************************************************************)
(* SpecTree: the directory mapper alone on trees of up to MaxDepth levels  *)
(* below the directory d, with hidden entries, files and directories side  *)
(* by side, every depth argument up to MaxDepth and a listing fault at any *)
(* directory.                                                              *)
(***************************************************************************)
TreePaths ==
    {<<"d">>,
     <<"d", ".h">>, <<"d", "README.md">>, <<"d", "a">>, <<"d", "d">>,
     <<"d", ".h", "a">>, <<"d", "a", ".h">>, <<"d", "a", "a">>,
     <<"d", "a", "a", "a">>}
\* The directories the mapper is called on.
TreeRoots == {<<"d">>, <<"d", ".h">>}

InitTree ==
    /\ InitOver(TreePaths, {<<>>})
    /\ isdir(fs, <<"d">>)
    /\ ~isdir(fs, <<"d", "README.md">>)

NextTree ==
    /\ Idle
    /\ \E directory \in TreeRoots, output_format \in {SomeStr("ascii"), SomeStr("json")},
          show_hidden \in BOOLEAN, depth \in OptInts(0..MaxDepth),
          fault \in {NoFault} \cup ListFaults(DOMAIN fs) :
          DirectoryMapper("_run", directory, output_format, show_hidden, depth, fault)

SpecTree == InitTree /\ [][NextTree]_vars

(***************************************************************************)
(* SpecRead: the file reader alone on one file of up to MaxLen characters, *)
(* line boundaries of every kind among them, with every max_chars up to    *)
(* MaxChars.                                                               *)
(***************************************************************************)
ReadPaths == {<<"a">>}
ReadAlphabet == {"x", LF, CR, FF}

InitRead ==
    /\ InitOver(ReadPaths, Str(ReadAlphabet, MaxLen))
    /\ \A p \in ReadPaths : isfile(fs, p)

NextRead ==
    /\ Idle
    /\ \E file_path \in DOMAIN fs, max_chars \in OptInts(0..MaxChars),
          inject_line_numbers \in BOOLEAN, fault \in {NoFault} \cup OSFaults({"read"}) :
          FileReader("_run", file_path, max_chars, inject_line_numbers, fault)

SpecRead == InitRead /\ [][NextRead]_vars

(***************************************************************************)
(* Properties.                                                             *)
(***************************************************************************)
\* The strings of the tools that begin with "Error".
ErrorMessages ==
    {"Error: Invalid action specified. Must be 'new', 'insert', or 'update'.",
     "Error: File '{file_path}' already exists.",
     "Error: File '{file_path}' does not exist.",
     "Error: content is required for insert and update actions.",
     "Error: start_line must be at least 1.",
     "Error: start_line and end_line are required for update action.",
     "Error: Invalid start_line or end_line values.",
     "Error: end_line {end_line} exceeds total number of lines in file (file has {len(lines)} lines).",
     "Error editing file: {e}",
     "Error: Source file '{source_path}' does not exist.",
     "Error: Destination file '{destination_path}' already exists and overwrite is disabled.",
     "Error creating destination directory: {e}",
     "Error copying file: {e}",
     "Error removing existing destination file: {e}",
     "Error renaming file: {e}",
     "Error: File '{file_path}' already exists and overwrite is disabled.",
     "Error creating directories for file: {e}",
     "Error writing file: {e}",
     "Error creating directory: {e}",
     "Error: The provided path '{file_path}' is not a valid file.",
     "Error reading file: {e}",
     "Error: The provided path '{directory}' is not a valid directory.",
     "Error: README.md not found in directory '{directory}'.",
     "Error reading README.md: {e}"}

Called(tool) == call.tool = tool

\* C1: every synchronous call (_run) of every tool returns a string and
\* never raises, whatever the arguments and whichever system call fails.
\* Refuted: a listing that fails with an I/O error other than a permission
\* denial, or output_format None, escapes DirectoryMapperTool._run.
C1_RunNeverRaises ==
    (~Idle /\ call.entry = "_run") => ret.status = "returned"

\* C2: every asynchronous entry point (_arun) returns the string and leaves
\* the file system that _run returns and leaves for the same arguments on
\* the same file system.  Refuted: CreateDirectoryTool._arun passes exist_ok,
\* which _run does not take, and raises TypeError.
C2_ArunIsRun ==
    (~Idle /\ call.entry = "_arun") =>
        /\ ret = RunOfCall(pre, call).ret
        /\ fs = RunOfCall(pre, call).fs

\* C3: editor action "new" on a path that exists, as a file or a directory,
\* returns the "already exists" error and leaves the file system as it was,
\* whatever the content argument.
C3_NewOnExistingPath ==
    (Called("FileEditorTool") /\ call.action = "new" /\ exists(pre, call.file_path)) =>
        /\ ret.status = "returned"
        /\ ret.msg = "Error: File '{file_path}' already exists."
        /\ fs = pre

C3_Witness ==
    /\ Called("FileEditorTool") /\ call.action = "new" /\ call.content.some
    /\ isfile(pre, call.file_path) /\ pre[call.file_path].content # call.content.val
    /\ ret.msg = "Error: File '{file_path}' already exists."

\* Every line of the text ends with "\n" and is cut by "\n" alone.
LinesEndInLF(text) ==
    /\ CR \notin Range(text) /\ FF \notin Range(text)
    /\ text # <<>> => text[Len(text)] = LF

\* An editor call on an existing file with content given.
EditorCall(action) ==
    /\ Called("FileEditorTool") /\ call.action = action
    /\ isfile(pre, call.file_path) /\ call.content.some

\* C4: editor action "update" with 1 <= start_line <= end_line <= n on a
\* file of lines L (n lines) succeeds and writes L[1..start_line-1], then
\* the lines of content, then L[end_line+1..n]; empty content deletes the
\* range.  The file holds the concatenation of that sequence, and read back
\* it is that sequence of lines when the lines of content end in "\n".
C4_UpdateSplices ==
    EditorCall("update") /\ call.start_line.some /\ call.end_line.some =>
        LET L == readlines(pre[call.file_path].content)
            s == call.start_line.val
            e == call.end_line.val
            spliced == SubSeq(L, 1, s - 1) \o splitlines_keepends(call.content.val)
                           \o SubSeq(L, e + 1, Len(L))
        IN  (1 <= s /\ s <= e /\ e <= Len(L)) =>
                /\ ret.msg = "Successfully updated lines {start_line} to {end_line} in file '{file_path}'."
                /\ fs = [pre EXCEPT ![call.file_path] = File(Concat(spliced))]
                /\ LinesEndInLF(call.content.val) =>
                       readlines(fs[call.file_path].content) = spliced
                /\ call.content.val = <<>> =>
                       readlines(fs[call.file_path].content)
                           = SubSeq(L, 1, s - 1) \o SubSeq(L, e + 1, Len(L))

C4_Witness ==
    /\ EditorCall("update")
    /\ Len(readlines(pre[call.file_path].content)) = 3
    /\ call.start_line = SomeInt(2) /\ call.end_line = SomeInt(2)
    /\ call.content.val = <<"x", LF>>
    /\ ret.msg = "Successfully updated lines {start_line} to {end_line} in file '{file_path}'."
    /\ fs # pre

\* C5: editor action "update" with start_line < 1, end_line < start_line or
\* end_line beyond the number of lines of the file (any range, on an empty
\* file) returns an error string and leaves the file as it was.
C5_UpdateInvalidRange ==
    EditorCall("update") /\ call.start_line.some /\ call.end_line.some =>
        LET n == Len(readlines(pre[call.file_path].content))
            s == call.start_line.val
            e == call.end_line.val
        IN  (s < 1 \/ e < s \/ e > n) =>
                /\ ret.status = "returned"
                /\ ret.msg \in ErrorMessages
                /\ fs = pre

C5_Witness ==
    /\ EditorCall("update")
    /\ Len(readlines(pre[call.file_path].content)) = 2
    /\ call.start_line = SomeInt(2) /\ call.end_line = SomeInt(3)
    /\ ret.msg = "Error: end_line {end_line} exceeds total number of lines in file (file has {len(lines)} lines)."
    /\ fs = pre

\* C6: editor action "insert" with start_line = s >= 1 on a file of lines L
\* (n lines) succeeds and writes L[1..k], then the lines of content, then
\* L[k+1..n], where k = min(s-1, n); with start_line < 1 it returns an error
\* and leaves the file as it was.
C6_InsertAtLine ==
    EditorCall("insert") /\ call.start_line.some =>
        LET L == readlines(pre[call.file_path].content)
            s == call.start_line.val
            k == IF s - 1 < Len(L) THEN s - 1 ELSE Len(L)
            spliced == SubSeq(L, 1, k) \o splitlines_keepends(call.content.val)
                           \o SubSeq(L, k + 1, Len(L))
        IN  IF s >= 1
            THEN /\ ret.msg = "Successfully inserted content into file '{file_path}' at line {index+1}."
                 /\ fs = [pre EXCEPT ![call.file_path] = File(Concat(spliced))]
                 /\ LinesEndInLF(call.content.val) /\ (k < Len(L) \/ LinesEndInLF(Concat(L))) =>
                        readlines(fs[call.file_path].content) = spliced
            ELSE /\ ret.msg = "Error: start_line must be at least 1."
                 /\ fs = pre

C6_Witness ==
    /\ EditorCall("insert")
    /\ Len(readlines(pre[call.file_path].content)) = 2
    /\ call.start_line = SomeInt(4)
    /\ call.content.val = <<"x", LF>>
    /\ ret.msg = "Successfully inserted content into file '{file_path}' at line {index+1}."
    /\ fs # pre

\* C7: editor action "insert" without start_line appends content after the
\* last line; a line break goes between the file and the appended content
\* when the last line of the file has no terminator, and none when the file
\* ends with a terminator (or is empty, or nothing is appended).
C7_InsertAppends ==
    EditorCall("insert") /\ ~call.start_line.some =>
        LET old == DecodeNewlines(pre[call.file_path].content)
            unterminated == old # <<>> /\ old[Len(old)] # LF
            break == IF unterminated /\ call.content.val # <<>> THEN <<LF>> ELSE <<>>
        IN  /\ ret.msg = "Successfully inserted content into file '{file_path}' at line {index+1}."
            /\ fs = [pre EXCEPT ![call.file_path] = File(old \o break \o call.content.val)]

C7_Witness ==
    /\ EditorCall("insert") /\ ~call.start_line.some
    /\ pre[call.file_path].content = <<"x">>
    /\ call.content.val = <<"x">>
    /\ fs[call.file_path].content = <<"x", LF, "x">>

\* C8: copy with overwrite=false onto a destination path that exists returns
\* an error and leaves the destination and the source (the whole file system)
\* as they were.
C8_CopyNoOverwrite ==
    (Called("FileCopyTool") /\ ~call.overwrite /\ exists(pre, call.destination_path)) =>
        /\ ret.status = "returned"
        /\ ret.msg \in ErrorMessages
        /\ fs = pre

C8_Witness ==
    /\ Called("FileCopyTool") /\ ~call.overwrite
    /\ isfile(pre, call.source_path) /\ isfile(pre, call.destination_path)
    /\ pre[call.source_path].content # pre[call.destination_path].content
    /\ ret.msg = "Error: Destination file '{destination_path}' already exists and overwrite is disabled."

\* C9: whenever copy returns its success string, destination_path is a file
\* whose content is the content of the source file, and the source file is
\* as it was.  Refuted: onto a destination that is a directory shutil.copy2
\* writes the copy inside it, and destination_path stays a directory.
C9_CopySuccess ==
    (Called("FileCopyTool")
         /\ ret.msg = "Successfully copied file from '{source_path}' to '{destination_path}'.") =>
        /\ isfile(fs, call.destination_path)
        /\ fs[call.destination_path].content = pre[call.source_path].content
        /\ fs[call.source_path] = pre[call.source_path]

\* C10: whenever rename returns its success string, the source path is gone
\* and destination_path is a file with the content the source had; with
\* overwrite=true nothing of an earlier destination file is left.
C10_RenameSuccess ==
    (Called("FileRenameTool")
         /\ ret.msg = "Successfully renamed file from '{source_path}' to '{destination_path}'.") =>
        /\ isfile(pre, call.source_path)
        /\ ~exists(fs, call.source_path)
        /\ fs[call.destination_path] = File(pre[call.source_path].content)
        /\ \A p \in DOMAIN fs \ {call.source_path, call.destination_path} :
               fs[p].kind = "file" => fs[p] = pre[p]

C10_Witness ==
    /\ Called("FileRenameTool") /\ call.overwrite
    /\ isfile(pre, call.destination_path)
    /\ pre[call.destination_path].content # pre[call.source_path].content
    /\ ret.msg = "Successfully renamed file from '{source_path}' to '{destination_path}'."
    /\ fs[call.destination_path].content = pre[call.source_path].content

\* C11: rename with overwrite=false onto a destination path that exists
\* returns an error, and the source file and the destination (the whole file
\* system) stay in place with their contents.
C11_RenameNoOverwrite ==
    (Called("FileRenameTool") /\ ~call.overwrite /\ exists(pre, call.destination_path)) =>
        /\ ret.status = "returned"
        /\ ret.msg \in ErrorMessages
        /\ fs = pre

C11_Witness ==
    /\ Called("FileRenameTool") /\ ~call.overwrite
    /\ isfile(pre, call.source_path) /\ isfile(pre, call.destination_path)
    /\ call.source_path # call.destination_path
    /\ pre[call.source_path].content # pre[call.destination_path].content
    /\ ret.msg = "Error: Destination file '{destination_path}' already exists and overwrite is disabled."
    /\ isfile(fs, call.source_path) /\ isfile(fs, call.destination_path)

\* q is a proper ancestor directory path of p.
Above(q, p) == q # <<>> /\ Len(q) < Len(p) /\ SubSeq(p, 1, Len(q)) = q

\* No regular file stands where a parent directory of p has to be.
Unobstructed(f, p) == \A q \in DOMAIN f : Above(q, p) => ~isfile(f, q)

\* The file system f with the file p of content c in it, the parent
\* directories of p made, and everything else as it was.
WithFile(f, p, c) ==
    [q \in DOMAIN f |-> IF q = p THEN File(c) ELSE IF Above(q, p) THEN Dir ELSE f[q]]

\* C12 as the claim states it, no system call failing: the file writer with
\* overwrite=false on a path that exists returns an error and leaves the
\* content as it was, and on a path that does not exist it creates the file
\* with the content given.  Refuted: below a regular file no file is created.
C12_Original ==
    (Called("WriteFileTool") /\ ~call.overwrite /\ call.fault = NoFault) =>
        IF exists(pre, call.file_path)
        THEN ret.msg \in ErrorMessages /\ fs = pre
        ELSE fs[call.file_path] = File(call.content)

\* C12: the file writer with overwrite=false on a path that exists returns
\* the "already exists" error and leaves the file system as it was; on a
\* path that does not exist and has no regular file for a parent it creates,
\* when no system call fails, the file with exactly the content given and
\* the missing parent directories; in every other case it returns an error
\* string and no existing file changes.
C12_WriterNoOverwrite ==
    (Called("WriteFileTool") /\ ~call.overwrite) =>
        IF exists(pre, call.file_path)
        THEN /\ ret.msg = "Error: File '{file_path}' already exists and overwrite is disabled."
             /\ fs = pre
        ELSE IF call.fault = NoFault /\ Unobstructed(pre, call.file_path)
        THEN /\ ret.msg = "Successfully wrote to file '{file_path}'."
             /\ fs = WithFile(pre, call.file_path, call.content)
        ELSE /\ ret.status = "returned" /\ ret.msg \in ErrorMessages
             /\ \A q \in DOMAIN pre : isfile(pre, q) => fs[q] = pre[q]

C12_Witness ==
    /\ Called("WriteFileTool") /\ ~call.overwrite
    /\ ~exists(pre, call.file_path) /\ ~exists(pre, dirname(call.file_path))
    /\ call.content = <<"x">>
    /\ ret.msg = "Successfully wrote to file '{file_path}'."
    /\ fs[call.file_path] = File(<<"x">>) /\ isdir(fs, dirname(call.file_path))

WithDirs(f, d) == [q \in DOMAIN f |-> IF q = d \/ Above(q, d) THEN Dir ELSE f[q]]

Indents == {ConnectorMid, ConnectorLast, PrefixMid, PrefixLast}
Sentinel == "    [Permission Denied]"

RECURSIVE LinesOf(_)
\* The lines of a text that "\n" joins.
LinesOf(out) ==
    LET breaks == {i \in DOMAIN out : out[i] = LF}
        first == IF breaks = {} THEN Len(out) + 1
                 ELSE CHOOSE i \in breaks : \A j \in breaks : i <= j
    IN  IF breaks = {} THEN <<out>>
        ELSE <<SubSeq(out, 1, first - 1)>> \o LinesOf(SubSeq(out, first + 1, Len(out)))

\* The nesting level of a line of the ascii tree: the root is level 1.
LineLevel(line) == 1 + Cardinality({i \in DOMAIN line : line[i] \in Indents})
IsSentinel(line) == line # <<>> /\ line[Len(line)] = Sentinel
\* The entry a line of the ascii tree shows.
LineEntry(line) ==
    [level |-> LineLevel(line), name |-> line[LineLevel(line)],
     dir |-> line[Len(line)] = "/"]

\* The entries of an ascii rendering, from top to bottom.
EntriesOfAscii(out) ==
    LET NotSentinel(line) == ~IsSentinel(line)
        shown == SelectSeq(LinesOf(out), NotSentinel)
    IN  [i \in DOMAIN shown |-> LineEntry(shown[i])]

RECURSIVE EntriesOfJson(_, _)
RECURSIVE EntriesOfJsonList(_, _)
\* The entries of a json rendering, every node before its children.
EntriesOfJson(tree, level) ==
    <<[level |-> level, name |-> tree.name, dir |-> tree.type = "directory"]>>
        \o (IF "children" \in DOMAIN tree THEN EntriesOfJsonList(tree.children, level + 1)
            ELSE <<>>)
EntriesOfJsonList(trees, level) ==
    IF trees = <<>> THEN <<>>
    ELSE EntriesOfJson(Head(trees), level) \o EntriesOfJsonList(Tail(trees), level)

\* A mapper call that returned a rendering.
Rendered == Called("DirectoryMapperTool") /\ ret.status = "returned" /\ ret.msg \in {"{tree}", "{json}"}
\* The entries of the rendering result r of a mapper call.
EntriesOf(r) == IF r.msg = "{json}" THEN EntriesOfJson(r.out, 1) ELSE EntriesOfAscii(r.out)
\* The call with the other output format.
OtherFormat(c) ==
    [c EXCEPT !.output_format = IF lower(c.output_format.val) = "json"
                                THEN SomeStr("ascii") ELSE SomeStr("json")]

\* C15: for every tree and every show_hidden and depth, the ascii and the
\* json rendering of the same root hold the same entries: the same names at
\* the same nesting levels in the same places, directories marked as
\* directories in both.
C15_AsciiJsonSameEntries ==
    Rendered =>
        LET other == RunOfCall(pre, OtherFormat(call)).ret
        IN  /\ other.status = "returned"
            /\ other.msg \in {"{tree}", "{json}"} /\ other.msg # ret.msg
            /\ EntriesOf(other) = EntriesOf(ret)

C15_Witness ==
    /\ Rendered /\ ret.msg = "{tree}" /\ call.directory = <<"d">>
    /\ call.show_hidden /\ ~call.depth.some /\ call.fault = NoFault
    /\ isdir(pre, <<"d", "a", ".h">>) /\ isdir(pre, <<"d", "a", "a">>)
    /\ isfile(pre, <<"d", "a", "a", "a">>) /\ isfile(pre, <<"d", "d">>)
    /\ Len(EntriesOf(ret)) = 6
    /\ EntriesOf(RunOfCall(pre, OtherFormat(call)).ret) = EntriesOf(ret)

RECURSIVE EntryPath(_, _, _)
\* The path of entry i of a rendering of root: an entry at level l lies in
\* the last entry at level l - 1 before it.
EntryPath(entries, root, i) ==
    IF i = 1 \/ entries[i].level = 1 THEN root
    ELSE Append(SubSeq(EntryPath(entries, root, i - 1), 1,
                       Len(root) + entries[i].level - 2),
                entries[i].name)

\* The paths a rendering shows.
ShownPaths(entries, root) == {EntryPath(entries, root, i) : i \in DOMAIN entries}

\* The names that start with ".".
HiddenNames == {".h"}
\* p is root or lies below it.
Under(root, p) == p = root \/ Above(root, p)
\* The level of p in the tree of root, the root being level 1.
TreeLevel(root, p) == Len(p) - Len(root) + 1
\* p lies below root in or under an entry with a hidden name.
HiddenBelow(root, p) == \E i \in (Len(root) + 1)..Len(p) : p[i] \in HiddenNames
\* p is the root or within the levels that depth allows.
WithinDepth(root, p, depth) ==
    ~depth.some \/ p = root \/ TreeLevel(root, p) <= depth.val

\* C16: with show_hidden=false the rendering (ascii and json) shows no entry
\* whose name starts with "." at any level and nothing beneath a hidden
\* directory, and it shows every other entry within the depth limit; with
\* show_hidden=true it shows every entry of the tree within the depth limit;
\* the root is shown in both cases, whatever its own name.
C16_HiddenEntries ==
    (Rendered /\ call.fault = NoFault) =>
        LET root == call.directory
            E == EntriesOf(ret)
            shown == ShownPaths(E, root)
            within == {p \in DOMAIN pre : Under(root, p) /\ exists(pre, p)
                                            /\ WithinDepth(root, p, call.depth)}
        IN  /\ E[1] = [level |-> 1, name |-> basename(root), dir |-> TRUE]
            /\ \A i \in DOMAIN E : i > 1 => E[i].level > 1
            /\ \A i \in DOMAIN E : E[i].dir = isdir(pre, EntryPath(E, root, i))
            /\ IF call.show_hidden THEN shown = within
               ELSE /\ \A i \in DOMAIN E : i > 1 => E[i].name \notin HiddenNames
                    /\ shown = {p \in within : ~HiddenBelow(root, p)}

C16_Witness ==
    /\ Rendered /\ call.fault = NoFault /\ ~call.show_hidden /\ ~call.depth.some
    /\ call.directory = <<"d">>
    /\ exists(pre, <<"d", ".h", "a">>) /\ exists(pre, <<"d", "a", ".h">>)
    /\ exists(pre, <<"d", "a", "a">>)
    /\ ShownPaths(EntriesOf(ret), <<"d">>) = {<<"d">>, <<"d", "a">>, <<"d", "a", "a">>}

RECURSIVE NodesOfJson(_, _)
RECURSIVE NodesOfJsonList(_, _)
\* The nodes of a json rendering with their levels.
NodesOfJson(tree, level) ==
    <<[level |-> level, node |-> tree]>>
        \o (IF "children" \in DOMAIN tree THEN NodesOfJsonList(tree.children, level + 1)
            ELSE <<>>)
NodesOfJsonList(trees, level) ==
    IF trees = <<>> THEN <<>>
    ELSE NodesOfJson(Head(trees), level) \o NodesOfJsonList(Tail(trees), level)

\* C17: with depth=k, k >= 1 and the root counted as level 1, the rendering
\* shows no entry at a level greater than k and every entry (that the hidden
\* filter lets through) at the levels up to k; a directory at level k is
\* shown without children: no line below it in ascii, children the empty
\* list in json; the root is always shown, and alone with depth=1.
C17_DepthLimit ==
    (Rendered /\ call.fault = NoFault /\ call.depth.some /\ call.depth.val >= 1) =>
        LET root == call.directory
            k == call.depth.val
            E == EntriesOf(ret)
            upto == {p \in DOMAIN pre :
                        /\ Under(root, p) /\ exists(pre, p) /\ TreeLevel(root, p) <= k
                        /\ call.show_hidden \/ ~HiddenBelow(root, p)}
            N == NodesOfJson(ret.out, 1)
        IN  /\ \A i \in DOMAIN E : E[i].level <= k
            /\ ShownPaths(E, root) = upto
            /\ E[1].level = 1 /\ E[1].name = basename(root)
            /\ k = 1 => Len(E) = 1
            /\ ret.msg = "{tree}" => Len(LinesOf(ret.out)) = Len(E)
            /\ ret.msg = "{json}" =>
                   \A i \in DOMAIN N :
                       (N[i].level = k /\ N[i].node.type = "directory") =>
                           /\ "children" \in DOMAIN N[i].node
                           /\ N[i].node.children = <<>>

C17_Witness ==
    /\ Rendered /\ call.fault = NoFault /\ call.depth = SomeInt(2) /\ ret.msg = "{json}"
    /\ call.directory = <<"d">>
    /\ isdir(pre, <<"d", "a", "a">>) /\ isfile(pre, <<"d", "d">>)
    /\ ShownPaths(EntriesOf(ret), <<"d">>) = {<<"d">>, <<"d", "a">>, <<"d", "d">>}
    /\ ret.out.children[1] = [name |-> "a", type |-> "directory", children |-> <<>>]

\* A reader call that returned the content of the file, max_chars = k given.
ReadUpTo == Called("FileReaderTool") /\ call.fault = NoFault /\ call.max_chars.some
              /\ isfile(pre, call.file_path)

\* The lines, each with its 1-based number and ": " before it.
Numbered(lines) == [i \in DOMAIN lines |-> Decimal(i) \o <<":", " ">> \o lines[i]]

\* C18 as the claim states it: with inject_line_numbers=false and
\* 0 <= k <= file length the reader returns exactly the first k characters
\* of the file.  Refuted: the first k characters of what text mode makes of
\* the file, which has "\n" where the file has "\r\n" or "\r".
C18_Original ==
    (ReadUpTo /\ ~call.inject_line_numbers) =>
        LET raw == pre[call.file_path].content
            k == call.max_chars.val
        IN  (0 <= k /\ k <= Len(raw)) => ret.out = Take(raw, k)

\* C18: the file reader applies max_chars to the text of the file, read in
\* text mode ("\r\n" and "\r" of the file read as "\n"), before it numbers
\* the lines: with 0 <= k <= length of the text, inject_line_numbers=false
\* gives exactly the first k characters of the text, and
\* inject_line_numbers=true gives the first k characters split into lines,
\* each with its 1-based number and ": " before it, joined by "\n".
C18_ReaderMaxChars ==
    ReadUpTo =>
        LET text == DecodeNewlines(pre[call.file_path].content)
            k == call.max_chars.val
        IN  (0 <= k /\ k <= Len(text)) =>
                /\ ret.msg = "{content}" /\ fs = pre
                /\ IF call.inject_line_numbers
                   THEN ret.out = JoinLines(Numbered(splitlines(Take(text, k))))
                   ELSE ret.out = Take(text, k) /\ Len(ret.out) = k

C18_Witness ==
    /\ ReadUpTo /\ call.inject_line_numbers /\ call.max_chars = SomeInt(2)
    /\ pre[call.file_path].content = <<LF, "x", "x">>
    /\ ret.out = <<"1", ":", " ", LF, "2", ":", " ", "x">>

RECURSIVE JsonReplace(_, _, _)
\* The json tree with node put in place of the node that the names of rest
\* lead to from the top.
JsonReplace(tree, rest, node) ==
    IF rest = <<>> THEN node
    ELSE [tree EXCEPT !.children =
             [i \in DOMAIN @ |-> IF @[i].name = Head(rest)
                                 THEN JsonReplace(@[i], Tail(rest), node) ELSE @[i]]]

\* The indentation of the lines below an ascii line: its own, with the
\* connector turned into the prefix that continues it.
ChildPrefix(line) ==
    LET n == LineLevel(line) - 1
    IN  IF n = 0 THEN <<>>
        ELSE Append(SubSeq(line, 1, n - 1),
                    IF line[n] = ConnectorLast THEN PrefixLast ELSE PrefixMid)

\* A mapper call in which listing the directory call.fault.at was denied.
DeniedAt == Called("DirectoryMapperTool") /\ call.fault.op = "listdir"
              /\ call.fault.err = "PermissionError"

\* C19: when listing one directory of the tree fails with a permission
\* error the rendering is still returned; it is the rendering without the
\* failure except that the denied directory has the sentinel in place of
\* its children: in ascii the "[Permission Denied]" line in place of the
\* lines below it, in json the error field and no children; nothing below
\* the directory is shown, and all the rest is as without the failure.
C19_PermissionDenied ==
    DeniedAt =>
        LET root == call.directory
            X == call.fault.at
            base == RunOfCall(pre, [call EXCEPT !.fault = NoFault]).ret
            EB == EntriesOf(base)
            i == CHOOSE n \in DOMAIN EB : EntryPath(EB, root, n) = X
            later == {n \in DOMAIN EB : n > i /\ EB[n].level <= EB[i].level}
            j == IF later = {} THEN Len(EB) + 1
                 ELSE CHOOSE n \in later : \A o \in later : n <= o
            B == LinesOf(base.out)
        IN  /\ Rendered /\ ret.msg = base.msg
            /\ X \in ShownPaths(EB, root)
            /\ \A q \in ShownPaths(EntriesOf(ret), root) : ~Above(X, q)
            /\ EntriesOf(ret) = SubSeq(EB, 1, i) \o SubSeq(EB, j, Len(EB))
            /\ ret.msg = "{tree}" =>
                   LinesOf(ret.out) = SubSeq(B, 1, i)
                                          \o <<Append(ChildPrefix(B[i]), Sentinel)>>
                                          \o SubSeq(B, j, Len(B))
            /\ ret.msg = "{json}" =>
                   ret.out = JsonReplace(base.out, SubSeq(X, Len(root) + 1, Len(X)),
                                         [name |-> basename(X), type |-> "directory",
                                          error |-> "Permission Denied"])

C19_Witness ==
    /\ DeniedAt /\ Rendered /\ ret.msg = "{tree}"
    /\ call.directory = <<"d">> /\ call.fault.at = <<"d", "a">>
    /\ exists(pre, <<"d", "a", "a">>) /\ isdir(pre, <<"d", "d">>)
    /\ ~exists(pre, <<"d", "README.md">>)
    /\ LinesOf(ret.out) = << <<"d", "/">>,
                             <<ConnectorMid, "a", "/">>,
                             <<PrefixMid, Sentinel>>,
                             <<ConnectorLast, "d", "/">> >>

\* The code point of the first character of each name: ".", "R", "a", "d".
\* The names differ in their first characters, which decide their order.
FirstCodePoint == (".h" :> 46) @@ ("README.md" :> 82) @@ ("a" :> 97) @@ ("d" :> 100)
NameBefore(m, n) == FirstCodePoint[m] < FirstCodePoint[n]

\* C20: in both renderings the children of every directory come in
\* ascending code point order of their names, files and directories in that
\* one order, after the hidden entries are filtered out.
C20_ChildrenSorted ==
    Rendered =>
        LET root == call.directory
            E == EntriesOf(ret)
        IN  \A i, j \in DOMAIN E :
                (1 < i /\ i < j
                     /\ dirname(EntryPath(E, root, i)) = dirname(EntryPath(E, root, j)))
                    => NameBefore(E[i].name, E[j].name)

C20_Witness ==
    /\ Rendered /\ call.directory = <<"d">> /\ call.show_hidden /\ call.depth = SomeInt(2)
    /\ isfile(pre, <<"d", ".h">>) /\ isfile(pre, <<"d", "README.md">>)
    /\ isdir(pre, <<"d", "a">>) /\ isfile(pre, <<"d", "d">>)
    /\ EntriesOf(ret) = << [level |-> 1, name |-> "d", dir |-> TRUE],
                           [level |-> 2, name |-> ".h", dir |-> FALSE],
                           [level |-> 2, name |-> "README.md", dir |-> FALSE],
                           [level |-> 2, name |-> "a", dir |-> TRUE],
                           [level |-> 2, name |-> "d", dir |-> FALSE] >>

\* An editor call with action "new" on a path that does not exist.
NewOnFreePath ==
    Called("FileEditorTool") /\ call.action = "new" /\ ~exists(pre, call.file_path)
\* The text that action "new" writes: content, or nothing for None.
NewText == IF call.content.some THEN call.content.val ELSE <<>>

Threads == {1, 2}
RacePath == <<"d", "a">>
RaceTexts == {<<"y", LF>>, <<"z", LF>>}
RaceFiles == {<<>>, <<"x", LF>>, <<"x", LF, "x", LF>>}

RaceCalls ==
    [tool : {"FileEditorTool"}, file_path : {RacePath}, action : {"new"},
     content : OptStrs(RaceTexts), start_line : {NoneInt}, end_line : {NoneInt},
     overwrite : {FALSE}]
    \cup [tool : {"FileEditorTool"}, file_path : {RacePath}, action : {"insert"},
          content : OptStrs(RaceTexts), start_line : {NoneInt, SomeInt(1)},
          end_line : {NoneInt}, overwrite : {FALSE}]
    \cup [tool : {"FileEditorTool"}, file_path : {RacePath}, action : {"update"},
          content : OptStrs(RaceTexts), start_line : {SomeInt(1)},
          end_line : {SomeInt(1)}, overwrite : {FALSE}]
    \cup [tool : {"WriteFileTool"}, file_path : {RacePath}, action : {""},
          content : {SomeStr(c) : c \in RaceTexts}, start_line : {NoneInt},
          end_line : {NoneInt}, overwrite : BOOLEAN]

\* A thread about to make call c: its position, the lines it has read, the
\* text it has buffered for the open file, the result it is about to return
\* and the result it has returned.
Thread(c) ==
    [call |-> c, pc |-> "check", lines |-> <<>>, text |-> <<>>, pending |-> NoRet,
     ret |-> NoRet]

InitRace ==
    /\ fs \in [{<<"d">>, RacePath} -> Nodes(RaceFiles)]
    /\ WellFormed(fs)
    /\ fs[<<"d">>].content = <<>>
    /\ pre = fs
    /\ call = NoCall
    /\ ret = NoRet
    /\ thread \in [Threads -> {Thread(c) : c \in RaceCalls}]

\* Thread t returns result r.
Finish(t, r) ==
    /\ fs' = r.fs
    /\ thread' = [thread EXCEPT ![t].pc = "done", ![t].ret = r.ret]

\* Thread t goes on at label.
Goto(t, label) ==
    /\ thread' = [thread EXCEPT ![t].pc = label]
    /\ UNCHANGED fs

\* The checks before anything is read or written: os.path.exists(file_path)
\* of action "new" and of the writer, os.path.isfile(file_path) and the
\* content of insert and update.
CheckExists(t) ==
    LET c == thread[t].call
    IN  /\ thread[t].pc = "check"
        /\ IF c.tool = "WriteFileTool"
           THEN IF WriteRefused(fs, c.file_path, c.overwrite)
                THEN Finish(t, Return(fs, "Error: File '{file_path}' already exists and overwrite is disabled."))
                ELSE Goto(t, "mkdir")
           ELSE IF c.action = "new"
           THEN IF exists(fs, c.file_path)
                THEN Finish(t, Return(fs, "Error: File '{file_path}' already exists."))
                ELSE Goto(t, "mkdir")
           ELSE IF ~isfile(fs, c.file_path)
           THEN Finish(t, Return(fs, "Error: File '{file_path}' does not exist."))
           ELSE IF ~c.content.some
           THEN Finish(t, Return(fs, "Error: content is required for insert and update actions."))
           ELSE Goto(t, "read")
        /\ UNCHANGED <<pre, call, ret>>

\* if directory and not os.path.exists(directory): os.makedirs(directory,
\* exist_ok=True).  With exist_ok a directory made in between by the other
\* thread is no error, so the check and the creation are one step.
MakeDirs(t) ==
    LET c == thread[t].call
        directory == dirname(c.file_path)
        made == IF directory # <<>> /\ ~exists(fs, directory)
                THEN makedirs(fs, directory, NoFault) ELSE Ok(fs)
        msg == IF c.tool = "WriteFileTool" THEN "Error creating directories for file: {e}"
               ELSE "Error editing file: {e}"
    IN  /\ thread[t].pc = "mkdir"
        /\ IF made.exc # "none" THEN Finish(t, Caught(made.fs, msg, made.exc))
           ELSE /\ fs' = made.fs
                /\ thread' = [thread EXCEPT ![t].pc = "open"]
        /\ UNCHANGED <<pre, call, ret>>

\* with open(file_path, "r") as f: lines = f.readlines()
ReadLines(t) ==
    LET c == thread[t].call
        opened == open_read(fs, c.file_path, NoFault)
    IN  /\ thread[t].pc = "read"
        /\ IF opened.exc # "none"
           THEN Finish(t, Caught(fs, "Error editing file: {e}", opened.exc))
           ELSE /\ thread' = [thread EXCEPT ![t].pc = "open",
                                            ![t].lines = readlines(fs[c.file_path].content)]
                /\ UNCHANGED fs
        /\ UNCHANGED <<pre, call, ret>>

\* The splice of a file read again when it is written.
EditorSplice_ReadAgain(f, c, lines) ==
    IF c.action = "insert"
    THEN EditorInsert(f, c.file_path, readlines(f[c.file_path].content), c.content,
                      c.start_line, NoFault)
    ELSE EditorUpdate(f, c.file_path, readlines(f[c.file_path].content), c.content,
                      c.start_line, c.end_line, NoFault)

\* Insert and update after the read: the checks of the line numbers and the
\* splice of the lines the thread has read, written to the file.
EditorSplice(f, c, lines) ==
    IF c.action = "insert"
    THEN EditorInsert(f, c.file_path, lines, c.content, c.start_line, NoFault)
    ELSE EditorUpdate(f, c.file_path, lines, c.content, c.start_line, c.end_line, NoFault)

\* What is left of the call once the parent directory is there and the file
\* is read: the open for writing and the write.
OpenAndWrite(f, c, lines) ==
    IF c.tool = "WriteFileTool"
    THEN LET written == open_write(f, c.file_path, WriteMode(c.overwrite), c.content.val,
                                   NoFault)
         IN  IF written.exc # "none"
             THEN Caught(written.fs, "Error writing file: {e}", written.exc)
             ELSE Return(written.fs, "Successfully wrote to file '{file_path}'.")
    ELSE IF c.action = "new"
    THEN LET text == IF c.content.some THEN c.content.val ELSE <<>>
             written == open_write(f, c.file_path, "w", text, NoFault)
         IN  IF written.exc # "none"
             THEN Caught(written.fs, "Error editing file: {e}", written.exc)
             ELSE Return(written.fs, "Successfully created new file '{file_path}'.")
    ELSE EditorSplice(f, c, lines)

\* open(file_path, mode): the file is created or cut to nothing, the text
\* stays in the buffer of the file object.  A failed check of the line
\* numbers or a failed open ends the call.
OpenForWrite(t) ==
    LET c == thread[t].call
        r == OpenAndWrite(fs, c, thread[t].lines)
    IN  /\ thread[t].pc = "open"
        /\ IF r.ret.msg \in ErrorMessages THEN Finish(t, r)
           ELSE /\ fs' = [r.fs EXCEPT ![c.file_path] = File(<<>>)]
                /\ thread' = [thread EXCEPT ![t].pc = "write",
                                            ![t].text = r.fs[c.file_path].content,
                                            ![t].pending = r.ret]
        /\ UNCHANGED <<pre, call, ret>>

\* The end of the with block: the buffer is written at the start of the
\* file, over whatever is there by now, and the call returns.
WriteClose(t) ==
    LET c == thread[t].call
        text == thread[t].text
    IN  /\ thread[t].pc = "write"
        /\ fs' = [fs EXCEPT ![c.file_path] =
                      File(text \o Drop(fs[c.file_path].content, Len(text)))]
        /\ thread' = [thread EXCEPT ![t].pc = "done", ![t].ret = thread[t].pending]
        /\ UNCHANGED <<pre, call, ret>>

NextRace ==
    \/ \E t \in Threads : CheckExists(t)
    \/ \E t \in Threads : MakeDirs(t)
    \/ \E t \in Threads : ReadLines(t)
    \/ \E t \in Threads : OpenForWrite(t)
    \/ \E t \in Threads : WriteClose(t)

SpecRace == InitRace /\ [][NextRace]_vars

\* Thread t has returned a string that does not begin with "Error".
Succeeded(t) ==
    /\ thread[t].pc = "done" /\ thread[t].ret.status = "returned"
    /\ thread[t].ret.msg \notin ErrorMessages
\* Thread t is an insert or an update.
Edits(t) ==
    thread[t].call.tool = "FileEditorTool" /\ thread[t].call.action \in {"insert", "update"}
\* The content of the file after call c alone on file system f.
Alone(f, c) ==
    FileEditorTool_run(f, c.file_path, c.action, c.content, c.start_line, c.end_line,
                       NoFault).fs
\* Text a written over text b from the start.
Over(a, b) == a \o Drop(b, Len(a))
\* Both edits have returned success after both have read the file as it was
\* before either wrote it.
BothReadFirst ==
    /\ \A t \in Threads : Edits(t) /\ Succeeded(t)
    /\ \A t \in Threads : thread[t].lines = readlines(pre[RacePath].content)

\* C22: two editor calls (insert or update) on one file that both read the
\* file before either writes it both return success, and the file is left
\* with the text that one call alone would have written (or with one such
\* text written over the start of the other), and so without the change of
\* the other call whenever the two changes differ.
C22_LostUpdate ==
    BothReadFirst =>
        LET one == Alone(pre, thread[1].call)[RacePath].content
            two == Alone(pre, thread[2].call)[RacePath].content
        IN  fs[RacePath].content \in {one, two, Over(one, two), Over(two, one)}

\* Both calls return success and the file is neither what the two calls
\* one after the other leave, in either order: the insert of z is lost.
C22_Witness ==
    /\ BothReadFirst
    /\ pre[RacePath].content = <<"x", LF>>
    /\ thread[1].call.action = "insert" /\ thread[1].call.content = SomeStr(<<"y", LF>>)
    /\ thread[2].call.action = "insert" /\ thread[2].call.content = SomeStr(<<"z", LF>>)
    /\ \A t \in Threads : thread[t].call.start_line = NoneInt
    /\ fs[RacePath].content = <<"x", LF, "y", LF>>
    /\ fs # Alone(Alone(pre, thread[1].call), thread[2].call)
    /\ fs # Alone(Alone(pre, thread[2].call), thread[1].call)

\* C23: renaming an existing regular file onto itself (source_path equal
\* to destination_path), with overwrite true or false and no system call
\* failing, leaves the file in place with the content it had.  Refuted: with
\* overwrite=true the destination, which is the source, is removed before
\* the rename, the rename then fails and the file is gone.
C23_RenameOntoItself ==
    (/\ Called("FileRenameTool") /\ call.fault = NoFault
     /\ call.source_path = call.destination_path
     /\ isfile(pre, call.source_path)) =>
        fs[call.source_path] = pre[call.source_path]

\* C24: whenever a rename of one path to another returns a string that
\* begins with "Error", the source file and the destination file that were
\* there before the call are both still there with the contents they had.
\* Refuted: a rename that fails after the removal of the destination
\* leaves no destination file.
C24_RenameAllOrNothing ==
    (/\ Called("FileRenameTool") /\ call.source_path # call.destination_path
     /\ ret.status = "returned" /\ ret.msg \in ErrorMessages) =>
        \A p \in {call.source_path, call.destination_path} :
            isfile(pre, p) => fs[p] = pre[p]

\* The numbered lines that the reader returned.
ShownLines == IF ret.out = <<>> THEN <<>> ELSE LinesOf(ret.out)
\* A line of readlines without the "\n" at its end.
WithoutLF(line) ==
    IF line # <<>> /\ line[Len(line)] = LF THEN Take(line, Len(line) - 1) ELSE line

\* C25: for every file content over an alphabet with "\n", "\r" and form
\* feed, the whole file read with line numbers has as many numbered lines
\* as the editor counts lines (the count it checks end_line against), and
\* the text after "n: " is the text of the line that an update with
\* start_line = end_line = n replaces.  Refuted: the reader splits at a form
\* feed, the editor does not.
C25_ReaderNumbersEditorLines ==
    (/\ Called("FileReaderTool") /\ call.fault = NoFault /\ isfile(pre, call.file_path)
     /\ call.inject_line_numbers /\ ~call.max_chars.some) =>
        LET lines == readlines(pre[call.file_path].content)
        IN  /\ \A n \in 1..(MaxLen + 1) : ~EndLineExceeds(lines, n) <=> n <= Len(ShownLines)
            /\ \A n \in DOMAIN lines :
                   /\ n \in DOMAIN ShownLines
                   /\ ShownLines[n] = Decimal(n) \o <<":", " ">> \o WithoutLF(lines[n])

\* The last k of the lines.
LastLines(lines, k) == SubSeq(lines, Len(lines) - k + 1, Len(lines))
\* The texts of the lines, without the "\n" at their ends.
LineTexts(lines) == [i \in DOMAIN lines |-> WithoutLF(lines[i])]

\* C26: after a successful update of lines start_line..end_line the lines
\* of the file before the range are the first lines of the new file and
\* the lines after the range are its last lines, each with the text and the
\* terminator it had, whatever the content is.  Refuted: content that does
\* not end with a line terminator runs into the line after the range.
C26_UpdateKeepsOtherLines ==
    (/\ EditorCall("update")
     /\ ret.msg = "Successfully updated lines {start_line} to {end_line} in file '{file_path}'.") =>
        LET old == readlines(pre[call.file_path].content)
            new == readlines(fs[call.file_path].content)
            before == call.start_line.val - 1
            after == Len(old) - call.end_line.val
        IN  /\ Len(new) >= before + after
            /\ Take(new, before) = Take(old, before)
            /\ LastLines(new, after) = LastLines(old, after)

\* C27: after a successful insert every line the file had is still a line
\* of its own with the text it had, in the same order, and the inserted
\* content starts at a line boundary: the new file is some of the first
\* lines of the old file as they were, then the lines of content, then the
\* rest of the old lines.  Refuted: content without a terminator runs into
\* the line it is inserted before, and content inserted at a start_line
\* beyond the end runs into an unterminated last line.
C27_InsertKeepsLines ==
    (/\ EditorCall("insert")
     /\ ret.msg = "Successfully inserted content into file '{file_path}' at line {index+1}.") =>
        LET old == LineTexts(readlines(pre[call.file_path].content))
            new == LineTexts(readlines(fs[call.file_path].content))
        IN  \E k \in 0..Len(old) :
                /\ Len(new) >= Len(old)
                /\ Take(new, k) = Take(old, k)
                /\ LastLines(new, Len(old) - k) = LastLines(old, Len(old) - k)
                /\ call.content.val # <<>> => Len(new) > Len(old)

\* Thread t has returned.
Done(t) == thread[t].pc = "done"
\* Thread t has returned a string that begins with "Error".
Failed(t) ==
    Done(t) /\ thread[t].ret.status = "returned" /\ thread[t].ret.msg \in ErrorMessages
\* The text call c of "new" or of the writer puts into the file.
TextOf(c) == IF c.content.some THEN c.content.val ELSE <<>>

\* C28: of two editor calls with action "new" on one path that does not
\* exist at first, whatever the order of their steps, at most one returns
\* success, and the file holds the content of a call that has returned
\* success.  Refuted: both calls pass the existence check before either
\* opens the file, both return success and the later write replaces the
\* earlier one.
C28_NewExclusive ==
    (/\ \A t \in Threads : /\ thread[t].call.tool = "FileEditorTool"
                           /\ thread[t].call.action = "new"
     /\ ~exists(pre, RacePath)) =>
        /\ ~(Succeeded(1) /\ Succeeded(2))
        /\ \A t \in Threads : Succeeded(t) => fs[RacePath] = File(TextOf(thread[t].call))

\* Both threads are file-writer calls with overwrite=false on a path that
\* does not exist at first.
WritersOnFreePath ==
    /\ \A t \in Threads : /\ thread[t].call.tool = "WriteFileTool"
                          /\ ~thread[t].call.overwrite
    /\ ~exists(pre, RacePath)

\* C29: of two file-writer calls with overwrite=false on one path that does
\* not exist at first, whatever the order of their steps, at most one
\* returns success and the other returns an error string; once both have
\* returned and no regular file is in the place of the parent directory,
\* exactly one has succeeded; and from the return of the successful call on
\* the file holds exactly its content.
C29_WriterExclusive ==
    WritersOnFreePath =>
        /\ ~(Succeeded(1) /\ Succeeded(2))
        /\ \A t \in Threads : Done(t) => Succeeded(t) \/ Failed(t)
        /\ (Done(1) /\ Done(2) /\ Unobstructed(pre, RacePath)) =>
               Succeeded(1) \/ Succeeded(2)
        /\ \A t \in Threads : Succeeded(t) => fs[RacePath] = File(TextOf(thread[t].call))

\* Both writers passed the existence check; the second open found the file
\* of the first.
C29_Witness ==
    /\ WritersOnFreePath /\ ~exists(pre, <<"d">>)
    /\ thread[1].call.content = SomeStr(<<"y", LF>>)
    /\ thread[2].call.content = SomeStr(<<"z", LF>>)
    /\ Succeeded(2) /\ Failed(1)
    /\ thread[1].ret.msg = "Error writing file: {e}"
    /\ thread[1].ret.exc = "FileExistsError"
    /\ fs[RacePath] = File(<<"z", LF>>)

(***************************************************************************)
(* SpecChannel: the three reading tools on a directory named Error with    *)
(* files whose contents begin with the characters of "Error" or do not.    *)
(***************************************************************************)
ChannelPaths == {<<"Error">>, <<"Error", "README.md">>, <<"Error", "a">>}
ChannelTexts ==
    {<<>>, <<"x">>, <<"E", "r", "r", "o", "r">>, <<"E", "r", "r", "o", "r", ":", " ", "x">>,
     <<"x", LF, "E", "r", "r", "o", "r">>}

InitChannel == InitOver(ChannelPaths, ChannelTexts)

NextChannel ==
    \/ /\ Idle
       /\ \E file_path \in DOMAIN fs, max_chars \in OptInts({0, 5}),
             inject_line_numbers \in BOOLEAN, fault \in {NoFault} \cup OSFaults({"read"}) :
             FileReader("_run", file_path, max_chars, inject_line_numbers, fault)
    \/ /\ Idle
       /\ \E directory \in DOMAIN fs, max_chars \in OptInts({0, 5}),
             fault \in {NoFault} \cup OSFaults({"read"}) :
             ReadmeReader("_run", directory, max_chars, fault)
    \/ /\ Idle
       /\ \E directory \in DOMAIN fs, output_format \in {SomeStr("ascii"), SomeStr("json")},
             show_hidden \in BOOLEAN, depth \in OptInts({1}) :
             DirectoryMapper("_run", directory, output_format, show_hidden, depth, NoFault)

SpecChannel == InitChannel /\ [][NextChannel]_vars

\* The names of the model that begin with "Error".
startswith_Error(name) == name \in {"Error"}
\* The returned string begins with the characters of "Error": the text of a
\* file, the first name of an ascii tree (a json tree begins with a brace),
\* or one of the strings of the tools.
ResultBeginsWithError ==
    IF ret.msg = "{content}"
    THEN Len(ret.out) >= 5 /\ Take(ret.out, 5) = <<"E", "r", "r", "o", "r">>
    ELSE IF ret.msg = "{tree}" THEN ret.out # <<>> /\ startswith_Error(ret.out[1])
    ELSE IF ret.msg = "{json}" THEN FALSE
    ELSE ret.msg \in ErrorMessages
\* The call took one of the returns that report a failure.
CallFailed == ret.msg \in ErrorMessages

\* C30: the string that a file read, a README read or a tree rendering
\* returns begins with "Error" exactly when the call failed, whatever the
\* content of the file and the name of the root directory.  Refuted: the
\* content of a file that begins with "Error", and the ascii tree of a
\* directory whose name does, are returned as they are.
C30_ErrorChannel ==
    (/\ call # NoCall
     /\ call.tool \in {"FileReaderTool", "ReadmeReaderTool", "DirectoryMapperTool"}
     /\ ret.status = "returned") =>
        (ResultBeginsWithError <=> CallFailed)

====
